---- MODULE Spec2Model ----
(***************************************************************************)
(* Model of generate_invoice.py: the derivation of the next invoice date   *)
(* from the prior output documents, and the regular-expression rewrite of  *)
(* a template document.                                                    *)
(*                                                                         *)
(* Text is modelled at the level of whitespace-separated tokens: a         *)
(* paragraph's text is a sequence of tokens, each a record                 *)
(*   [k, n, m, y, s]   (kind, numbers, string).                            *)
(* A regular expression of the program matches a window of consecutive     *)
(* tokens of the right kinds; matches that would start or end inside a     *)
(* token are not modelled.  A datetime is a record [y, m, d]; the time of  *)
(* day the program carries along is never read and is left out.  Years     *)
(* stay far below datetime's maximum year.                                 *)
(***************************************************************************)
EXTENDS Integers, Sequences, FiniteSets, TLC

VARIABLES
    template,   \* the template document on disk
    files,      \* the invoice_*.docx files on disk: records [name, doc, mtime, by]
    now,        \* the current real date, datetime.now()
    clock,      \* the filesystem's modification-time counter
    runs,       \* number of runs of auto_update_invoice so far
    touches,    \* number of external touches of a file so far
    run         \* what the last run of auto_update_invoice computed and returned

vars == <<template, files, now, clock, runs, touches, run>>

----------------------------------------------------------------------------
(* Bounds of the model *)

MaxRuns == 2
MaxTouches == 1

(* Program constants *)

RandLo == 1000
RandHi == 9999
FiscalStartMonth == 4
ServiceStartDay == 7
ServiceEndDay == 6

----------------------------------------------------------------------------
(* Dates *)

Date(y, m, d) == [y |-> y, m |-> m, d |-> d]

NoneDate == Date(0, 0, 0)

MonthNames ==
    << "January", "February", "March", "April", "May", "June", "July",
       "August", "September", "October", "November", "December" >>

LowerMonthNames ==
    << "january", "february", "march", "april", "may", "june", "july",
       "august", "september", "october", "november", "december" >>

IsLeap(y) == (y % 4 = 0 /\ y % 100 # 0) \/ y % 400 = 0

DaysInMonth(y, m) ==
    IF m = 2 THEN (IF IsLeap(y) THEN 29 ELSE 28)
    ELSE IF m \in {4, 6, 9, 11} THEN 30 ELSE 31

Min(a, b) == IF a <= b THEN a ELSE b

\* a buggy month step that wraps the month and forgets to carry the year
AddMonthsNoCarry(date, k) ==
    LET month0 == date.m + k
        month  == IF month0 > 12 THEN month0 - 12
                  ELSE IF month0 < 1 THEN month0 + 12 ELSE month0
    IN  Date(date.y, month, Min(date.d, DaysInMonth(date.y, month)))

\* date + relativedelta(months = k), for k in {-1, 1}: the month moves, the
\* year carries, and the day is clipped to the length of the new month.
AddMonths(date, k) ==
    LET month0 == date.m + k
        year   == IF month0 > 12 THEN date.y + 1
                  ELSE IF month0 < 1 THEN date.y - 1 ELSE date.y
        month  == IF month0 > 12 THEN month0 - 12
                  ELSE IF month0 < 1 THEN month0 + 12 ELSE month0
    IN  Date(year, month, Min(date.d, DaysInMonth(year, month)))

\* datetime.replace(day = d)
ReplaceDay(date, d) == [date EXCEPT !.d = d]

----------------------------------------------------------------------------
(* Decimal rendering: str(n), s[-2:], f"{n:02d}" *)

DigitChar == << "0", "1", "2", "3", "4", "5", "6", "7", "8", "9" >>

RECURSIVE Digits(_)
Digits(n) == IF n < 10 THEN << n >> ELSE Append(Digits(n \div 10), n % 10)

RECURSIVE Chars(_)
Chars(ds) == IF ds = << >> THEN "" ELSE DigitChar[Head(ds) + 1] \o Chars(Tail(ds))

Str(n) == Chars(Digits(n))

\* s[-2:] of a digit sequence: the last two characters, or all of a shorter one
LastTwo(ds) == IF Len(ds) <= 2 THEN ds ELSE SubSeq(ds, Len(ds) - 1, Len(ds))

----------------------------------------------------------------------------
(* Tokens *)

Tok(k, n, m, y, s) == [k |-> k, n |-> n, m |-> m, y |-> y, s |-> s]

Lbl(s)          == Tok("lbl", 0, 0, 0, s)        \* "Date:" or "Invoice No:"
Word(s)         == Tok("word", 0, 0, 0, s)       \* a run of letters, or other filler
OrdTok(n, suf)  == Tok("ord", n, 0, 0, suf)      \* "<n><suf>", n of one or two digits
Num4(y)         == Tok("num", 0, 0, y, "")       \* four digits, of value y
Slash(d, m, y)  == Tok("slash", d, m, y, "")     \* "<d>/<mm>/<yyyy>"
InvNo(n, fy)    == Tok("invno", n, 0, 0, fy)     \* "IN<n>/<fy>"

Suffixes == {"st", "nd", "rd", "th"}

\* f"{n:0wd}": n in decimal, padded with zeros to w digits
RECURSIVE Pad(_, _)
Pad(ds, w) == IF Len(ds) >= w THEN ds ELSE Pad(<< 0 >> \o ds, w)

\* the characters a token stands for
TokText(t) ==
    CASE t.k = "ord"   -> Str(t.n) \o t.s
      [] t.k = "num"   -> Chars(Pad(Digits(t.y), 4))
      [] t.k = "slash" -> Str(t.n) \o "/" \o Chars(Pad(Digits(t.m), 2)) \o "/" \o Str(t.y)
      [] t.k = "invno" -> "IN" \o Str(t.n) \o "/" \o t.s
      [] OTHER         -> t.s

\* the text of a sequence of tokens: the tokens separated by single spaces
RECURSIVE Text(_)
Text(toks) ==
    IF toks = << >> THEN ""
    ELSE IF Len(toks) = 1 THEN TokText(toks[1])
    ELSE TokText(toks[1]) \o " " \o Text(Tail(toks))

\* the words of the model's vocabulary that contain, and that end with, one of
\* the substrings "st", "nd", "rd", "th"
ContainsSuffix(w) == w \in {"August", "august"}
EndsWithSuffix(w) == w \in {"August", "august"}

IsAlpha(w) == w \notin {"-", ""}

----------------------------------------------------------------------------
(* ordinal, get_financial_year *)

ordinal(n) ==
    IF 10 <= n % 100 /\ n % 100 <= 20
    THEN OrdTok(n, "th")
    ELSE OrdTok(n, CASE n % 10 = 1 -> "st"
                     [] n % 10 = 2 -> "nd"
                     [] n % 10 = 3 -> "rd"
                     [] OTHER -> "th")

get_financial_year_off(date) ==
    IF date.m > FiscalStartMonth
    THEN Str(date.y) \o "-" \o Chars(LastTwo(Digits(date.y + 1)))
    ELSE Str(date.y - 1) \o "-" \o Chars(LastTwo(Digits(date.y)))

get_financial_year(date) ==
    IF date.m >= FiscalStartMonth
    THEN Str(date.y) \o "-" \o Chars(LastTwo(Digits(date.y + 1)))
    ELSE Str(date.y - 1) \o "-" \o Chars(LastTwo(Digits(date.y)))

----------------------------------------------------------------------------
(* Documents and files *)

Doc(ok, paras, cells) == [ok |-> ok, paras |-> paras, cells |-> cells]

\* doc.paragraphs is paras; cells is the paragraphs of the cells of the rows of
\* doc.tables, in the order the nested loops visit them.  ok = FALSE is a file
\* Document() cannot read.

\* by: what is known of the run that wrote a file: its number (0 for a file no
\* run of the model wrote), its invoice date, and whether it rewrote the
\* long-form date
NoBy == [id |-> 0, date |-> NoneDate, emb |-> FALSE]

File(name, doc, mtime, by) == [name |-> name, doc |-> doc, mtime |-> mtime, by |-> by]

NoFile == File("", Doc(FALSE, << >>, << >>), 0, NoBy)

----------------------------------------------------------------------------
(* Regular expressions over tokens: re.search, re.sub *)

IsOrdinalDay(t) == t.k = "ord" /\ t.n >= 0 /\ t.n <= 99 /\ t.s \in Suffixes
IsLetters(t)    == t.k = "word" /\ IsAlpha(t.s)
IsYear4(t)      == t.k = "num"

PatternLen(pat) ==
    CASE pat = "date"          -> 3
      [] pat = "labelled_date" -> 4
      [] pat = "invoice_no"    -> 1
      [] pat = "slash_date"    -> 1
      [] pat = "period"        -> 7

DateAt(text, i) ==
    /\ IsOrdinalDay(text[i])
    /\ IsLetters(text[i + 1])
    /\ IsYear4(text[i + 2])

MatchesAt(pat, text, i) ==
    /\ i >= 1
    /\ i + PatternLen(pat) - 1 <= Len(text)
    /\ CASE pat = "date" -> DateAt(text, i)
         [] pat = "labelled_date" -> text[i] = Lbl("Date:") /\ DateAt(text, i + 1)
         [] pat = "invoice_no" ->
                /\ text[i].k = "invno"
                /\ Len(Digits(text[i].n)) = 4
                /\ Len(text[i].s) = 7
         [] pat = "slash_date" ->
                /\ text[i].k = "slash"
                /\ text[i].n >= 0 /\ text[i].n <= 99
                /\ text[i].m >= 0 /\ text[i].m <= 99
                /\ Len(Digits(text[i].y)) = 4
         [] pat = "period" ->
                /\ DateAt(text, i)
                /\ text[i + 3] = Word("to")
                /\ DateAt(text, i + 4)

\* re.search(pat, text): the position of the leftmost match, 0 for no match
ReSearch(pat, text) ==
    IF \E i \in 1..Len(text) : MatchesAt(pat, text, i)
    THEN CHOOSE i \in 1..Len(text) :
            /\ MatchesAt(pat, text, i)
            /\ \A j \in 1..(i - 1) : ~MatchesAt(pat, text, j)
    ELSE 0

RECURSIVE SubFrom(_, _, _, _)
SubFrom(pat, repl, text, i) ==
    IF i > Len(text) THEN << >>
    ELSE IF MatchesAt(pat, text, i)
         THEN repl \o SubFrom(pat, repl, text, i + PatternLen(pat))
         ELSE << text[i] >> \o SubFrom(pat, repl, text, i + 1)

\* re.sub(pat, repl, text): every non-overlapping match, left to right
ReSub(pat, repl, text) == SubFrom(pat, repl, text, 1)

\* "Date:" in text, "Invoice No:" in text, "/" in text
HasLabel(text, s) == \E i \in 1..Len(text) : text[i] = Lbl(s)

HasSlashChar(text) == \E i \in 1..Len(text) : text[i].k \in {"slash", "invno"}

TokContainsSuffix(t) ==
    \/ t.k = "ord" /\ t.s \in Suffixes
    \/ t.k = "word" /\ ContainsSuffix(t.s)

TokEndsWithSuffix(t) ==
    \/ t.k = "ord" /\ t.s \in Suffixes
    \/ t.k = "word" /\ EndsWithSuffix(t.s)

\* "st" in text or "nd" in text or "rd" in text or "th" in text
HasSuffix(text) == \E i \in 1..Len(text) : TokContainsSuffix(text[i])

\* "st " in text or ... : the suffix followed by a space
HasSuffixSpace(text) == \E i \in 1..(Len(text) - 1) : TokEndsWithSuffix(text[i])

----------------------------------------------------------------------------
(* find_latest_invoice, extract_date_from_latest_invoice,                  *)
(* determine_invoice_date                                                  *)

\* max(invoice_files, key = os.path.getmtime): a file of the greatest
\* modification time; which one among equals is up to glob's order
find_latest_invoice(fs) == {f \in fs : \A g \in fs : g.mtime <= f.mtime}

\* f"1 {month_name} {year}" built from the matched day, month and year tokens
date_str_keepday(w) == [d |-> w[1].n, month_name |-> w[2].s, year |-> w[3].y]

date_str(w) == [d |-> 1, month_name |-> w[2].s, year |-> w[3].y]

Lower(w) ==
    IF \E i \in 1..12 : MonthNames[i] = w
    THEN LowerMonthNames[CHOOSE i \in 1..12 : MonthNames[i] = w]
    ELSE w

\* datetime.strptime(ds, "%d %B %Y") of the string f"{d} {month_name} {year}":
\* %B is a full month name in any case, %Y is exactly four digits, and year is
\* rendered by str, without leading zeros; NoneDate stands for ValueError
strptime(ds) ==
    IF /\ \E i \in 1..12 : LowerMonthNames[i] = Lower(ds.month_name)
       /\ Len(Str(ds.year)) = 4
    THEN LET mi == CHOOSE i \in 1..12 : LowerMonthNames[i] = Lower(ds.month_name)
         IN  IF ds.d >= 1 /\ ds.d <= DaysInMonth(ds.year, mi)
             THEN Date(ds.year, mi, ds.d)
             ELSE NoneDate
    ELSE NoneDate

NoHit == [p |-> 0, i |-> 0]

\* the paragraph and position of the match extract_date_from_latest_invoice
\* returns from, searching paragraphs p, p+1, ...: a paragraph that passes the
\* filter, whose leftmost match parses; a match that does not parse is logged
\* and the loop goes on
RECURSIVE ExtractHit(_, _)
ExtractHit(paras, p) ==
    IF p > Len(paras) THEN NoHit
    ELSE LET text == paras[p]
             i == ReSearch("date", text)
         IN  IF /\ HasLabel(text, "Date:")
                /\ HasSuffixSpace(text)
                /\ i # 0
                /\ strptime(date_str(SubSeq(text, i, i + 2))) # NoneDate
             THEN [p |-> p, i |-> i]
             ELSE ExtractHit(paras, p + 1)

\* the text of the match the date is returned from: << >> when the file cannot
\* be read (the exception is caught) or no paragraph yields a date
MatchedText(f) ==
    IF ~f.doc.ok \/ ExtractHit(f.doc.paras, 1) = NoHit THEN << >>
    ELSE SubSeq(f.doc.paras[ExtractHit(f.doc.paras, 1).p],
                ExtractHit(f.doc.paras, 1).i, ExtractHit(f.doc.paras, 1).i + 2)

extract_date_from_latest_invoice(f) ==
    IF MatchedText(f) = << >> THEN NoneDate
    ELSE strptime(date_str(MatchedText(f)))

\* a buggy fallback that also advances the current date by a month
determine_invoice_date_advancing(latest, today) ==
    LET last_date == IF latest = NoFile THEN NoneDate
                     ELSE extract_date_from_latest_invoice(latest)
    IN  AddMonths(IF last_date # NoneDate THEN last_date ELSE ReplaceDay(today, 1), 1)

\* a buggy fallback that keeps the current day of the month
determine_invoice_date_keepday(latest, today) ==
    IF latest # NoFile /\ extract_date_from_latest_invoice(latest) # NoneDate
    THEN AddMonths(extract_date_from_latest_invoice(latest), 1)
    ELSE today

\* latest is the file find_latest_invoice returned, NoFile for None
determine_invoice_date(latest, today) ==
    LET last_date == IF latest = NoFile THEN NoneDate
                     ELSE extract_date_from_latest_invoice(latest)
    IN  IF latest # NoFile /\ last_date # NoneDate
        THEN AddMonths(last_date, 1)
        ELSE ReplaceDay(today, 1)

----------------------------------------------------------------------------
(* auto_update_invoice: the computed values *)

\* the values one run substitutes, from invoice_date and random_num
Values(invoice_date, random_num) ==
    LET fin_year           == get_financial_year(invoice_date)
        prev_month_date    == AddMonths(invoice_date, -1)
        service_start_date == ReplaceDay(prev_month_date, ServiceStartDay)
        service_end_date   == ReplaceDay(invoice_date, ServiceEndDay)
    IN  [ fin_year       |-> fin_year,
          invoice_number |-> << InvNo(random_num, fin_year) >>,
          date_format1   |-> << ordinal(invoice_date.d),
                                Word(MonthNames[invoice_date.m]),
                                Num4(invoice_date.y) >>,
          date_format2   |-> << Slash(invoice_date.d, invoice_date.m, invoice_date.y) >>,
          service_period |-> << ordinal(service_start_date.d),
                                Word(MonthNames[service_start_date.m]),
                                Num4(service_start_date.y),
                                Word("to"),
                                ordinal(service_end_date.d),
                                Word(MonthNames[service_end_date.m]),
                                Num4(service_end_date.y) >> ]

\* f"invoice_{invoice_date.strftime('%B_%Y').lower()}.docx"
output_filename(invoice_date) ==
    "invoice_" \o LowerMonthNames[invoice_date.m] \o "_" \o Str(invoice_date.y) \o ".docx"

----------------------------------------------------------------------------
(* auto_update_invoice: the rewrite of the loaded document *)

\* the result of one substitution: the new text, and whether it differs
SubResult(text, new) == [text |-> new, flag |-> (new # text)]

\* a buggy stage that sets the flag on a match, changed or not
FieldStageOnMatch(text, flag, cond, pat, repl) ==
    IF cond /\ ~flag /\ ReSearch(pat, text) # 0
    THEN [text |-> ReSub(pat, repl, text), flag |-> TRUE]
    ELSE [text |-> text, flag |-> flag]

\* a buggy stage that forgets the "not updated" guard
FieldStageUnguarded(text, flag, cond, pat, repl) ==
    IF cond /\ ReSearch(pat, text) # 0
    THEN [SubResult(text, ReSub(pat, repl, text)) EXCEPT !.flag = @ \/ flag]
    ELSE [text |-> text, flag |-> flag]

\* One guarded substitution of the loops: when the region passes the field's
\* filter, the field is not yet updated and the pattern matches, substitute
\* and set the flag if the text changed.
FieldStage(text, flag, cond, pat, repl) ==
    IF cond /\ ~flag /\ ReSearch(pat, text) # 0
    THEN SubResult(text, ReSub(pat, repl, text))
    ELSE [text |-> text, flag |-> flag]

\* the filters of the four fields
CondLong(text)   == HasLabel(text, "Date:") /\ HasSuffix(text)
CondInvNo(text)  == HasLabel(text, "Invoice No:")
CondSlash(text)  == HasLabel(text, "Date:") /\ HasSlashChar(text)
CondPeriod(text) == TRUE

\* cur: the text of the region a loop body works on, with the four flags
\*      [text, date_format1_updated, date_format2_updated,
\*       invoice_number_updated, service_period_updated]
\* st:  the document and the flags
\*      [paras, cells, date_format1_updated, date_format2_updated,
\*       invoice_number_updated, service_period_updated]

Cur(st, text) ==
    [ text |-> text,
      date_format1_updated   |-> st.date_format1_updated,
      date_format2_updated   |-> st.date_format2_updated,
      invoice_number_updated |-> st.invoice_number_updated,
      service_period_updated |-> st.service_period_updated ]

Flags(st, cur) ==
    [st EXCEPT !.date_format1_updated   = cur.date_format1_updated,
               !.date_format2_updated   = cur.date_format2_updated,
               !.invoice_number_updated = cur.invoice_number_updated,
               !.service_period_updated = cur.service_period_updated]

PutPara(st, p, cur) == [Flags(st, cur) EXCEPT !.paras[p] = cur.text]
PutCell(st, c, cur) == [Flags(st, cur) EXCEPT !.cells[c] = cur.text]

SetLong(cur, r)   == [cur EXCEPT !.text = r.text, !.date_format1_updated = r.flag]
SetInvNo(cur, r)  == [cur EXCEPT !.text = r.text, !.invoice_number_updated = r.flag]
SetSlash(cur, r)  == [cur EXCEPT !.text = r.text, !.date_format2_updated = r.flag]
SetPeriod(cur, r) == [cur EXCEPT !.text = r.text, !.service_period_updated = r.flag]

\* the long-form date, "Date: 1st February 2025"
StageLong(cur, v) ==
    SetLong(cur, FieldStage(cur.text, cur.date_format1_updated, CondLong(cur.text),
                            "labelled_date", << Lbl("Date:") >> \o v.date_format1))

\* the invoice number
StageInvNo(cur, v) ==
    SetInvNo(cur, FieldStage(cur.text, cur.invoice_number_updated, CondInvNo(cur.text),
                             "invoice_no", v.invoice_number))

\* the short-form date, "1/02/2025"
StageSlash(cur, v) ==
    SetSlash(cur, FieldStage(cur.text, cur.date_format2_updated, CondSlash(cur.text),
                             "slash_date", v.date_format2))

\* the service period
StagePeriod(cur, v) ==
    SetPeriod(cur, FieldStage(cur.text, cur.service_period_updated, CondPeriod(cur.text),
                              "period", v.service_period))

\* body of the loop over doc.paragraphs for the long-form date
LongDateStep(st, p, v) == PutPara(st, p, StageLong(Cur(st, st.paras[p]), v))

RECURSIVE LongDateLoop(_, _, _)
LongDateLoop(st, p, v) ==
    IF p > Len(st.paras) THEN st
    ELSE LongDateLoop(LongDateStep(st, p, v), p + 1, v)

\* body of the loop over the paragraphs of the table cells: the invoice
\* number, then the short-form date, then the service period, each on the
\* text the stage before it left
CellStep(st, c, v) ==
    PutCell(st, c, StagePeriod(StageSlash(StageInvNo(Cur(st, st.cells[c]), v), v), v))

RECURSIVE CellLoop(_, _, _)
CellLoop(st, c, v) ==
    IF c > Len(st.cells) THEN st
    ELSE CellLoop(CellStep(st, c, v), c + 1, v)

\* body of the additional loop over doc.paragraphs
ParaStep(st, p, v) ==
    PutPara(st, p, StageSlash(StageInvNo(Cur(st, st.paras[p]), v), v))

RECURSIVE ParaLoop(_, _, _)
ParaLoop(st, p, v) ==
    IF p > Len(st.paras) THEN st
    ELSE ParaLoop(ParaStep(st, p, v), p + 1, v)

\* the additional loop runs if the invoice number or the short-form date is
\* not yet updated
AdditionalCheck(st, v) ==
    IF ~st.invoice_number_updated \/ ~st.date_format2_updated
    THEN ParaLoop(st, 1, v)
    ELSE st

NoFlags(paras, cells) ==
    [ paras |-> paras, cells |-> cells,
      date_format1_updated |-> FALSE, date_format2_updated |-> FALSE,
      invoice_number_updated |-> FALSE, service_period_updated |-> FALSE ]

\* the three loops in order, from all four flags False
Rewrite(doc, v) ==
    AdditionalCheck(
        CellLoop(LongDateLoop(NoFlags(doc.paras, doc.cells), 1, v), 1, v), v)

----------------------------------------------------------------------------
(* auto_update_invoice: one run *)

\* a buggy ending that lets the exception escape
return_value_uncaught(load_ok, save_ok, st, name) ==
    IF load_ok /\ save_ok THEN name ELSE "raised"

\* a buggy ending that treats a field that was not updated as a failure
return_value_strict(load_ok, save_ok, st, name) ==
    IF /\ load_ok /\ save_ok
       /\ st.date_format1_updated /\ st.date_format2_updated
       /\ st.invoice_number_updated /\ st.service_period_updated
    THEN name ELSE "None"

\* What the run returns: the output filename, or None when Document(template)
\* or doc.save raised and the except clause caught it.  The flags only decide
\* which warnings are logged.
return_value(load_ok, save_ok, st, name) ==
    IF load_ok /\ save_ok THEN name ELSE "None"

NoValues ==
    [ fin_year |-> "", invoice_number |-> << >>, date_format1 |-> << >>,
      date_format2 |-> << >>, service_period |-> << >> ]

NoRun ==
    [ id |-> 0, load_ok |-> FALSE, save_ok |-> FALSE, latest |-> NoFile,
      today |-> NoneDate, match |-> << >>, last_date |-> NoneDate,
      invoice_date |-> NoneDate,
      random_num |-> 0, values |-> NoValues,
      tmpl |-> Doc(FALSE, << >>, << >>), st |-> NoFlags(<< >>, << >>),
      result |-> "" ]

\* The record of one run that loaded its template: tmpl is the document as
\* loaded, latest the file find_latest_invoice returned (NoFile for None), v
\* the computed values, st the document and flags after the loops.
Completed(id, tmpl, latest, today, random_num, save_ok, invoice_date, v, st) ==
    [ id |-> id, load_ok |-> TRUE, save_ok |-> save_ok,
      latest |-> latest, today |-> today,
      match |-> IF latest = NoFile THEN << >> ELSE MatchedText(latest),
      last_date |-> IF latest = NoFile THEN NoneDate
                    ELSE extract_date_from_latest_invoice(latest),
      invoice_date |-> invoice_date,
      random_num |-> random_num, values |-> v,
      tmpl |-> tmpl, st |-> st,
      result |-> return_value(TRUE, save_ok, st, output_filename(invoice_date)) ]

Rewritten(id, tmpl, latest, today, random_num, save_ok, invoice_date, v) ==
    Completed(id, tmpl, latest, today, random_num, save_ok, invoice_date, v,
              Rewrite(tmpl, v))

Derived(id, tmpl, latest, today, random_num, save_ok, invoice_date) ==
    Rewritten(id, tmpl, latest, today, random_num, save_ok, invoice_date,
              Values(invoice_date, random_num))

\* the body of the try block, up to the return
RunRecord(id, tmpl, latest, today, random_num, load_ok, save_ok) ==
    IF ~load_ok
    THEN [NoRun EXCEPT !.id = id, !.save_ok = save_ok,
                       !.result = return_value(load_ok, save_ok, NoRun.st, "")]
    ELSE Derived(id, tmpl, latest, today, random_num, save_ok,
                 determine_invoice_date(latest, today))

\* doc.save(output_filename): the file is created, or replaced, with the
\* current modification time
Save(fs, f) == {g \in fs : g.name # f.name} \cup {f}

\* the values of random.randint(RandLo, RandHi) the runs draw
RandSet == {n \in {1234, 9999} : RandLo <= n /\ n <= RandHi}

LatestOrNone(fs) == IF fs = {} THEN {NoFile} ELSE find_latest_invoice(fs)

\* the file a run that saved leaves on disk
Output(r, mtime) ==
    File(output_filename(r.invoice_date), Doc(TRUE, r.st.paras, r.st.cells), mtime,
         [id |-> r.id, date |-> r.invoice_date, emb |-> r.st.date_format1_updated])

\* the effect of the run r on the disk; a doc.save that raises is taken to
\* leave the disk as it was
Commit(r) ==
    /\ run' = r
    /\ files' = IF r.load_ok /\ r.save_ok THEN Save(files, Output(r, clock)) ELSE files
    /\ clock' = IF r.load_ok /\ r.save_ok THEN clock + 1 ELSE clock

\* One run of auto_update_invoice(template_name).  load_ok and save_ok say
\* whether Document(template_name) and doc.save return or raise.
auto_update_invoice ==
    /\ runs < MaxRuns
    /\ \E load_ok \in BOOLEAN, save_ok \in BOOLEAN,
          random_num \in RandSet, latest \in LatestOrNone(files) :
          /\ (load_ok /\ save_ok) \/ (random_num = RandHi /\ (load_ok \/ save_ok))
          /\ Commit(RunRecord(runs + 1, template, latest, now, random_num,
                              load_ok, save_ok))
    /\ runs' = runs + 1
    /\ UNCHANGED <<template, now, touches>>

\* The modification time of a prior invoice changes outside the program
\* (the file is touched or edited by hand).
Touch ==
    /\ touches < MaxTouches
    /\ \E f \in files :
          /\ f \notin find_latest_invoice(files)
          /\ files' = Save(files, [f EXCEPT !.mtime = clock])
    /\ clock' = clock + 1
    /\ touches' = touches + 1
    /\ UNCHANGED <<template, now, runs, run>>

----------------------------------------------------------------------------
(* The documents, files and dates the runs start from *)

LongDate(d, suf, mon, y) == << Lbl("Date:"), OrdTok(d, suf), Word(mon), Num4(y) >>

Period(d1, mon1, y1, d2, mon2, y2) ==
    << OrdTok(d1, "th"), Word(mon1), Num4(y1), Word("to"),
       OrdTok(d2, "th"), Word(mon2), Num4(y2) >>

InvLine(n, fy) == << Lbl("Invoice No:"), InvNo(n, fy) >>

TStandard ==
    Doc(TRUE,
        << << Word("Invoice") >>, LongDate(1, "st", "February", 2025) >>,
        << InvLine(1234, "2024-25"),
           << Lbl("Date:"), Word("-"), Slash(1, 2, 2025) >>,
           Period(7, "January", 2025, 6, "February", 2025) >>)

TOnlyInvNo ==
    Doc(TRUE, << << Word("Thanks") >> >>, << InvLine(1234, "2024-25") >>)

TBlank == Doc(TRUE, << << Word("Thanks") >> >>, << >>)

TRepeats ==
    Doc(TRUE,
        << LongDate(1, "st", "February", 2025),
           LongDate(15, "th", "March", 2024),
           InvLine(1111, "2023-24"),
           << Lbl("Date:"), Slash(9, 9, 2023) >> >>,
        << << Lbl("Invoice No:"), InvNo(1234, "2024-25"), InvNo(5678, "2024-25") >>,
           << Lbl("Date:"), Slash(1, 2, 2025), Slash(2, 2, 2025) >>,
           Period(7, "January", 2025, 6, "February", 2025),
           Period(7, "May", 2024, 6, "June", 2024) >>)

TStaleFirst ==
    Doc(TRUE,
        << << Word("Due"), OrdTok(5, "th"), Word("March"), Num4(2024) >>
           \o LongDate(31, "st", "January", 2025) >>,
        << >>)

TInParas ==
    Doc(TRUE,
        << LongDate(1, "st", "Feb", 2025),
           InvLine(1234, "2024-25"),
           << Lbl("Date:"), Slash(1, 2, 2025) >> >>,
        << >>)

TMixed ==
    Doc(TRUE,
        << << Lbl("Date:"), Slash(1, 2, 2025) >>, InvLine(1111, "2023-24") >>,
        << InvLine(1234, "2024-25") >>)

TNearMisses ==
    Doc(TRUE,
        << << Word("Dated"), OrdTok(1, "st"), Word("February"), Num4(2025) >>,
           << Word("Due"), Slash(1, 2, 2025) >> >>,
        << InvLine(123, "2024-25"),
           << Word("Ref"), InvNo(1234, "2024-25") >>,
           << Lbl("Date:"), Word("August") >> >>)

TemplateSet ==
    { TStandard, TOnlyInvNo, TBlank, TRepeats, TStaleFirst, TInParas, TMixed,
      TNearMisses }

Prior(name, paras, mtime) == File(name, Doc(TRUE, paras, << >>), mtime, NoBy)

PriorSets ==
    { {},
      { Prior("invoice_january_2025.docx",
              << << Word("Invoice") >>, LongDate(15, "th", "January", 2025) >>, 1) },
      { Prior("invoice_december_2099.docx",
              << LongDate(31, "st", "december", 2099) >>, 1) },
      { File("invoice_broken.docx", Doc(FALSE, << >>, << >>), 1, NoBy) },
      { Prior("invoice_draft.docx",
              << LongDate(1, "st", "Feb", 2025), LongDate(2, "nd", "March", 999),
                 << Lbl("Date:"), Slash(1, 2, 2025) >> >>, 1) },
      { Prior("invoice_november_2024.docx",
              << LongDate(1, "st", "Feb", 2025), LongDate(3, "rd", "November", 2024) >>,
              1) },
      { Prior("invoice_march_2025.docx", << LongDate(1, "st", "March", 2025) >>, 1),
        Prior("invoice_december_2024.docx",
              << LongDate(1, "st", "December", 2024) >>, 2) } }

NowSet == { Date(2025, 2, 14), Date(2025, 3, 31), Date(2025, 12, 31) }

\* every template with no prior invoice on disk, and three of the templates
\* with each set of prior invoices
Scenarios ==
    { << t, {} >> : t \in TemplateSet }
    \cup { << t, fs >> : t \in {TStandard, TStaleFirst, TOnlyInvNo}, fs \in PriorSets }

Later(a, b) == a.y > b.y \/ (a.y = b.y /\ (a.m > b.m \/ (a.m = b.m /\ a.d > b.d)))

\* Real time passes between runs.
Tick ==
    /\ \E d \in NowSet : Later(d, now) /\ now' = d
    /\ UNCHANGED <<template, files, clock, runs, touches, run>>

Init ==
    /\ \E sc \in Scenarios : template = sc[1] /\ files = sc[2]
    /\ now \in NowSet
    /\ clock = 3
    /\ runs = 0
    /\ touches = 0
    /\ run = NoRun

Next == auto_update_invoice \/ Touch \/ Tick

Spec == Init /\ [][Next]_vars

\* The same program started on every month of three years, with no prior
\* invoice on disk: the runs fall back to the current date, then follow their
\* own outputs.
AllNow ==
    { dt \in { Date(y, m, d) : y \in {2024, 2025, 2099}, m \in 1..12, d \in {1, 29, 31} } :
        dt.d <= DaysInMonth(dt.y, dt.m) }

InitDates ==
    /\ template \in {TStandard, TBlank}
    /\ files = {}
    /\ now \in AllNow
    /\ clock = 3
    /\ runs = 0
    /\ touches = 0
    /\ run = NoRun

NextDates == auto_update_invoice

SpecDates == InitDates /\ [][NextDates]_vars

----------------------------------------------------------------------------
(* Properties *)

\* the last run loaded its template and computed its values
Ran == run.id > 0 /\ run.load_ok

\* day 1 of the calendar month after month m of year y
NextMonthStart(y, m) == IF m = 12 THEN Date(y + 1, 1, 1) ELSE Date(y, m + 1, 1)

\* the number of the month a month name, in either case, names
MonthNumber(w) == CHOOSE i \in 1..12 : w \in {MonthNames[i], LowerMonthNames[i]}

TwoDigits(k) == ToString(k \div 10) \o ToString(k % 10)

\* C1: whenever the latest prior output yields a long-form date in month M of
\* year Y, the new invoice date is day 1 of the month after M (January of Y+1
\* after December), whatever day of the month the text carries.
C1_Monotonic ==
    (Ran /\ run.match # << >>) =>
        run.invoice_date = NextMonthStart(run.match[3].y, MonthNumber(run.match[2].s))

\* a run read "31st december 2099" from the latest prior output
C1_Witness ==
    /\ Ran /\ run.match # << >>
    /\ run.match[1].n = 31
    /\ MonthNumber(run.match[2].s) = 12
    /\ run.invoice_date = Date(2100, 1, 1)

\* the anchor of a run: the extracted date, or the current date on day 1
Anchor == IF run.last_date # NoneDate THEN run.last_date
          ELSE Date(run.today.y, run.today.m, 1)

\* C3 as stated: in every run, the fallback included, the new invoice date is
\* the anchor advanced by one calendar month.
C3_AlwaysAdvanced ==
    Ran => run.invoice_date = NextMonthStart(Anchor.y, Anchor.m)

\* C3 amended: the new invoice date is the extracted date advanced by one
\* calendar month when a date was extracted, and in the fallback case it is the
\* current date on day 1, not advanced.
C3_AdvancedOnlyWhenExtracted ==
    Ran => run.invoice_date =
              IF run.last_date # NoneDate
              THEN NextMonthStart(run.last_date.y, run.last_date.m)
              ELSE Date(run.today.y, run.today.m, 1)

\* a run fell back on the 31st of a month and stayed in that month
C3_Witness ==
    /\ Ran /\ run.last_date = NoneDate
    /\ run.today.d = 31
    /\ run.invoice_date = Date(run.today.y, run.today.m, 1)

\* a paragraph the extraction returns a date from: it holds the label, and its
\* leftmost day-month-year has a month name and a year of four digits
YieldsDate(text) ==
    /\ \E i \in 1..Len(text) : text[i] = Lbl("Date:")
    /\ \E i \in 1..(Len(text) - 2) :
          /\ DateAt(text, i)
          /\ \A j \in 1..(i - 1) : j + 2 > Len(text) \/ ~DateAt(text, j)
          /\ \E k \in 1..12 : text[i + 1].s \in {MonthNames[k], LowerMonthNames[k]}
          /\ text[i + 2].y >= 1000

\* no invoice file exists, or the latest cannot be read or yields no date
NothingToExtract ==
    \/ run.latest = NoFile
    \/ ~run.latest.doc.ok
    \/ \A p \in 1..Len(run.latest.doc.paras) : ~YieldsDate(run.latest.doc.paras[p])

\* C4: when no invoice file exists, or the latest yields no parseable long-form
\* date, the run goes on and the invoice date is the current date on day 1.
C4_Fallback ==
    (Ran /\ NothingToExtract) =>
        /\ run.invoice_date = Date(run.today.y, run.today.m, 1)
        /\ run.result # "raised"

\* a run found an unreadable latest invoice in the middle of a month
C4_Witness ==
    /\ Ran /\ run.latest # NoFile /\ ~run.latest.doc.ok
    /\ run.today.d = 14
    /\ run.invoice_date = Date(run.today.y, run.today.m, 1)

\* C5: a date in month 4 to 12 of year Y has financial year "Y-(Y+1 mod 100)",
\* a date in month 1 to 3 has "(Y-1)-(Y mod 100)", the second part of two digits.
C5_FinancialYear ==
    Ran =>
        /\ run.values.fin_year =
              IF run.invoice_date.m \in 4..12
              THEN ToString(run.invoice_date.y) \o "-"
                   \o TwoDigits((run.invoice_date.y + 1) % 100)
              ELSE ToString(run.invoice_date.y - 1) \o "-"
                   \o TwoDigits(run.invoice_date.y % 100)
        /\ (run.invoice_date = Date(2025, 3, 1) => run.values.fin_year = "2024-25")
        /\ (run.invoice_date = Date(2025, 4, 1) => run.values.fin_year = "2025-26")

\* a run dated April 2025, the first month of a financial year
C5_Witness ==
    /\ Ran
    /\ run.invoice_date = Date(2025, 4, 1)
    /\ run.values.fin_year = "2025-26"

\* C6: the service period starts on day 7 of the month before the invoice
\* month (December of the year before, for January) and ends on day 6 of the
\* invoice month, rendered "7th <Month> <Year> to 6th <Month> <Year>".
C6_ServicePeriod ==
    Ran =>
        LET y  == run.invoice_date.y
            m  == run.invoice_date.m
            pm == IF m = 1 THEN 12 ELSE m - 1
            py == IF m = 1 THEN y - 1 ELSE y
        IN  /\ Text(run.values.service_period) =
                  "7th " \o MonthNames[pm] \o " " \o ToString(py)
                  \o " to 6th " \o MonthNames[m] \o " " \o ToString(y)
            /\ (run.invoice_date = Date(2025, 3, 1) =>
                  Text(run.values.service_period) = "7th February 2025 to 6th March 2025")
            /\ run.st.service_period_updated =>
                  \E c \in 1..Len(run.st.cells) :
                     \E i \in 1..Len(run.st.cells[c]) :
                        /\ i + 6 <= Len(run.st.cells[c])
                        /\ SubSeq(run.st.cells[c], i, i + 6) = run.values.service_period

\* a run dated January wrote a service period that starts in the year before
C6_Witness ==
    /\ Ran
    /\ run.invoice_date = Date(2025, 1, 1)
    /\ run.st.service_period_updated
    /\ Text(run.values.service_period) = "7th December 2024 to 6th January 2025"

\* C2: a run that selects, as the latest prior invoice, the output of a run
\* that embedded its invoice date in the document's text derives the date one
\* month after that embedded date.
C2_RoundTrip ==
    (Ran /\ run.latest # NoFile /\ run.latest.by.id > 0 /\ run.latest.by.emb) =>
        run.invoice_date = NextMonthStart(run.latest.by.date.y, run.latest.by.date.m)

----------------------------------------------------------------------------
(* The four fields of the rewrite, seen from the template and the output *)

Fields == {"long", "invno", "slash", "period"}

\* no region of a template of the model is longer
MaxTokens == 8

FieldPattern(f) ==
    CASE f = "long"   -> "labelled_date"
      [] f = "invno"  -> "invoice_no"
      [] f = "slash"  -> "slash_date"
      [] f = "period" -> "period"

FieldCond(f, text) ==
    CASE f = "long"   -> CondLong(text)
      [] f = "invno"  -> CondInvNo(text)
      [] f = "slash"  -> CondSlash(text)
      [] f = "period" -> CondPeriod(text)

\* the text the last run substitutes for the field
FieldNew(f) ==
    CASE f = "long"   -> << Lbl("Date:") >> \o run.values.date_format1
      [] f = "invno"  -> run.values.invoice_number
      [] f = "slash"  -> run.values.date_format2
      [] f = "period" -> run.values.service_period

FieldFlag(f) ==
    CASE f = "long"   -> run.st.date_format1_updated
      [] f = "invno"  -> run.st.invoice_number_updated
      [] f = "slash"  -> run.st.date_format2_updated
      [] f = "period" -> run.st.service_period_updated

CellRegions == [c \in 1..Len(run.tmpl.cells) |-> << "cell", c >>]
ParaRegions == [p \in 1..Len(run.tmpl.paras) |-> << "para", p >>]

\* the regions a field is searched in, in scan order
ScanOrder(f) ==
    CASE f = "long"   -> ParaRegions
      [] f = "period" -> CellRegions
      [] OTHER        -> CellRegions \o ParaRegions

\* a region's text in the template as loaded, and in the rewritten document
Before(r) == IF r[1] = "cell" THEN run.tmpl.cells[r[2]] ELSE run.tmpl.paras[r[2]]
After(r)  == IF r[1] = "cell" THEN run.st.cells[r[2]] ELSE run.st.paras[r[2]]

Window(f, text, i) == SubSeq(text, i, i + PatternLen(FieldPattern(f)) - 1)

\* the k-th region of the field's scan satisfies the field's matching rule
Matched(f, k) ==
    /\ FieldCond(f, Before(ScanOrder(f)[k]))
    /\ \E i \in 1..Len(Before(ScanOrder(f)[k])) :
          MatchesAt(FieldPattern(f), Before(ScanOrder(f)[k]), i)

\* the matching occurrences of a field: << place in the scan, position >>
Occurrences(f) ==
    { o \in (1..Len(ScanOrder(f))) \X (1..MaxTokens) :
        /\ FieldCond(f, Before(ScanOrder(f)[o[1]]))
        /\ MatchesAt(FieldPattern(f), Before(ScanOrder(f)[o[1]]), o[2]) }

Replaced(f, o) ==
    Window(f, After(ScanOrder(f)[o[1]]), o[2]) # Window(f, Before(ScanOrder(f)[o[1]]), o[2])

Precedes(o1, o2) == o1[1] < o2[1] \/ (o1[1] = o2[1] /\ o1[2] < o2[2])

\* the substitution changes the k-th region: it holds an occurrence that
\* differs from the new text
Changing(f, k) ==
    /\ Matched(f, k)
    /\ \E i \in 1..Len(Before(ScanOrder(f)[k])) :
          /\ MatchesAt(FieldPattern(f), Before(ScanOrder(f)[k]), i)
          /\ Window(f, Before(ScanOrder(f)[k]), i) # FieldNew(f)

\* the first region of the scan the substitution changes, 0 if there is none
FirstChanging(f) ==
    IF \E k \in 1..Len(ScanOrder(f)) : Changing(f, k)
    THEN CHOOSE k \in 1..Len(ScanOrder(f)) :
            Changing(f, k) /\ \A j \in 1..(k - 1) : ~Changing(f, j)
    ELSE 0

\* C7 as stated: for each field at most one matching occurrence in the whole
\* document is replaced, the first in scan order; every further occurrence,
\* in the same region or a later one, is left unchanged.
C7_OneOccurrence ==
    Ran => \A f \in Fields :
              LET occ == Occurrences(f)
              IN  \A o \in occ :
                     Replaced(f, o) => \A o2 \in occ : o2 = o \/ Precedes(o, o2)

\* C7 amended: for each field at most one region has occurrences replaced, the
\* first region in scan order that satisfies the field's rule and that the
\* substitution changes; every occurrence inside that region is replaced by
\* the new text, and the occurrences in every other region are left unchanged.
C7_OneRegion ==
    Ran => \A f \in Fields :
              LET first == FirstChanging(f)
              IN  \A o \in Occurrences(f) :
                     Window(f, After(ScanOrder(f)[o[1]]), o[2]) =
                        IF o[1] = first THEN FieldNew(f)
                        ELSE Window(f, Before(ScanOrder(f)[o[1]]), o[2])

\* a run replaced two occurrences of a field in one region and left an
\* occurrence in a later region as it was
C7_Witness ==
    /\ Ran
    /\ \E f \in Fields :
          \E o1, o2, o3 \in Occurrences(f) :
             /\ o1[1] = o2[1] /\ o1[2] < o2[2] /\ o2[1] < o3[1]
             /\ Replaced(f, o1) /\ Replaced(f, o2)
             /\ ~Replaced(f, o3)
             /\ Window(f, Before(ScanOrder(f)[o3[1]]), o3[2]) # FieldNew(f)

\* C8 as stated: a field's flag is true exactly when some region satisfies the
\* field's matching rule.
C8_FlagIffMatched ==
    Ran => \A f \in Fields :
              FieldFlag(f) <=> \E k \in 1..Len(ScanOrder(f)) : Matched(f, k)

\* only the invoice number has a region that satisfies its rule
OnlyInvoiceNumberRegion ==
    \A f \in Fields :
        (f = "invno") <=> \E k \in 1..Len(ScanOrder(f)) : Matched(f, k)

\* C8 amended: a field's flag is true exactly when some region satisfies the
\* field's matching rule and the substitution changes its text; a template
\* with only an invoice-number region leaves the other three flags false.
C8_FlagIffChanged ==
    Ran =>
        /\ \A f \in Fields : FieldFlag(f) <=> FirstChanging(f) # 0
        /\ OnlyInvoiceNumberRegion =>
              \A f \in Fields \ {"invno"} : ~FieldFlag(f)

\* a run on a template with only an invoice-number region set that flag alone
C8_Witness ==
    /\ Ran
    /\ OnlyInvoiceNumberRegion
    /\ \A f \in Fields : FieldFlag(f) <=> f = "invno"

\* a region no field's rule is satisfied in
Unmatched(r) ==
    \A f \in Fields :
        \A k \in 1..Len(ScanOrder(f)) : ScanOrder(f)[k] = r => ~Matched(f, k)

\* C9: whichever fields match no region, the run leaves the unmatched regions
\* as they were, saves the document as invoice_<month-name>_<year>.docx and
\* returns that name.
C9_SavedWhateverMatched ==
    (Ran /\ run.save_ok) =>
        /\ run.result = "invoice_" \o LowerMonthNames[run.invoice_date.m] \o "_"
                        \o ToString(run.invoice_date.y) \o ".docx"
        /\ \E g \in files :
              /\ g.name = run.result
              /\ g.by.id = run.id
              /\ g.doc = Doc(TRUE, run.st.paras, run.st.cells)
        /\ Len(run.st.paras) = Len(run.tmpl.paras)
        /\ Len(run.st.cells) = Len(run.tmpl.cells)
        /\ \A p \in 1..Len(run.tmpl.paras) :
              Unmatched(<< "para", p >>) => run.st.paras[p] = run.tmpl.paras[p]
        /\ \A c \in 1..Len(run.tmpl.cells) :
              Unmatched(<< "cell", c >>) => run.st.cells[c] = run.tmpl.cells[c]
        /\ \A f \in Fields :
              (\A k \in 1..Len(ScanOrder(f)) : ~Matched(f, k)) => ~FieldFlag(f)

\* a run on a template where none of the four fields matched saved its output
C9_Witness ==
    /\ Ran /\ run.save_ok
    /\ Len(run.tmpl.cells) > 0
    /\ \A f \in Fields : \A k \in 1..Len(ScanOrder(f)) : ~Matched(f, k)
    /\ run.result = "invoice_february_2025.docx"
    /\ \E g \in files : g.name = run.result /\ g.doc.cells = run.tmpl.cells

\* C10: when loading the template or saving the output raises, the run returns
\* None to its caller and produces no output document.
C10_FailureReturnsNone ==
    (run.id > 0 /\ ~(run.load_ok /\ run.save_ok)) =>
        /\ run.result = "None"
        /\ \A g \in files : g.by.id # run.id

\* a run whose save raised, after an earlier run had saved its output
C10_Witness ==
    /\ run.id > 1 /\ run.load_ok /\ ~run.save_ok
    /\ run.result = "None"
    /\ files # {}

====
